---- MODULE Spec2Model ----
(***************************************************************************)
(* Model of app.py (audit-recon): the "Run Audit" handler and the three    *)
(* functions it calls, run_google_test, run_compliance_crawl and           *)
(* analyze_risk_keywords.                                                  *)
(*                                                                         *)
(* Python strings that the code inspects character by character (page      *)
(* text, keywords, URLs) are sequences of one-character strings.  Python   *)
(* None is the empty tuple and a present value x is the one-tuple <<x>>.   *)
(***************************************************************************)
EXTENDS Integers, Sequences, FiniteSets, TLC

\* ------------------------------------------------------------------ bounds
\* most fragments concatenated into the text the extraction service returns
MaxFrags == 2
\* most elements in the HTML body the direct fetch returns
MaxNodes == 2

\* ---------------------------------------------------------------- optionals
None == <<>>
Some(x) == <<x>>

\* ------------------------------------------------------------ Python strings
UpperCase == <<"A","B","C","D","E","F","G","H","I","J","K","L","M",
               "N","O","P","Q","R","S","T","U","V","W","X","Y","Z">>
LowerCase == <<"a","b","c","d","e","f","g","h","i","j","k","l","m",
               "n","o","p","q","r","s","t","u","v","w","x","y","z">>

\* str.lower() on one character
LowerTable ==
  [c \in {UpperCase[i] : i \in 1..26} |->
     LowerCase[CHOOSE i \in 1..26 : UpperCase[i] = c]]
LowerChar(c) == IF c \in DOMAIN LowerTable THEN LowerTable[c] ELSE c

\* str.lower()
Lower(s) == [i \in 1..Len(s) |-> LowerChar(s[i])]

\* the Python operator `sub in s` on strings
Contains(s, sub) ==
  \E off \in 0..(Len(s) - Len(sub)) :
    \A i \in 1..Len(sub) : s[off + i] = sub[i]

\* str.startswith(prefix)
StartsWith(s, prefix) ==
  /\ Len(prefix) <= Len(s)
  /\ \A i \in 1..Len(prefix) : s[i] = prefix[i]

\* str.startswith((p1, p2)) with the tuple of line 81
HttpPrefix == <<"h","t","t","p",":","/","/">>
HttpsPrefix == <<"h","t","t","p","s",":","/","/">>

\* run_compliance_crawl, step 1: URL sanitization
SanitizeUrl(url) ==
  IF ~(StartsWith(url, HttpPrefix) \/ StartsWith(url, HttpsPrefix))
  THEN HttpsPrefix \o url
  ELSE url

\* str.strip() of the spaces at both ends
RECURSIVE StripLeft(_)
StripLeft(s) ==
  IF s # <<>> /\ Head(s) = " " THEN StripLeft(Tail(s)) ELSE s

RECURSIVE StripRight(_)
StripRight(s) ==
  IF s # <<>> /\ s[Len(s)] = " " THEN StripRight(SubSeq(s, 1, Len(s) - 1)) ELSE s

Strip(s) == StripRight(StripLeft(s))

\* ------------------------------------------------- analyze_risk_keywords
\* risk_keywords, a dict: its items() come in insertion order
CategoryNames == <<"Promissory / Guarantees", "Unapproved Products", "Testimonials (SEC Rule)">>

risk_keywords == <<
  << <<"g","u","a","r","a","n","t","e","e","d"," ","r","e","t","u","r","n">>,
     <<"r","i","s","k","-","f","r","e","e">>,
     <<"n","o"," ","l","o","s","s">>,
     <<"g","u","a","r","a","n","t","e","e","d"," ","i","n","c","o","m","e">> >>,
  << <<"c","r","y","p","t","o">>,
     <<"p","r","i","v","a","t","e"," ","e","q","u","i","t","y">>,
     <<"h","e","d","g","e"," ","f","u","n","d">>,
     <<"b","i","t","c","o","i","n">>,
     <<"e","t","h","e","r","e","u","m">> >>,
  << <<"r","e","v","i","e","w","s">>,
     <<"s","t","a","r"," ","r","a","t","i","n","g">>,
     <<"5"," ","s","t","a","r","s">>,
     <<"t","e","s","t","i","m","o","n","i","a","l","s">> >> >>

\* the f-string appended to found_risks at line 135
FormatRisk(category, keyword) ==
  <<"(red circle) **", category, "**: Found term '", keyword, "'">>

\* a slip: the text is not lower-cased
TextLower_AsIs(text) == text

\* text.lower() at line 130
TextLower(text) == Lower(text)

\* the test of line 134
KeywordFound(keyword, text_lower) == Contains(text_lower, keyword)

\* the inner loop of lines 133-135 over one category, from keyword k on
RECURSIVE ScanKeywords(_, _, _)
ScanKeywords(c, k, text_lower) ==
  IF k > Len(risk_keywords[c]) THEN <<>>
  ELSE (IF KeywordFound(risk_keywords[c][k], text_lower)
        THEN <<FormatRisk(CategoryNames[c], risk_keywords[c][k])>>
        ELSE <<>>)
       \o ScanKeywords(c, k + 1, text_lower)

\* the outer loop of lines 132-135, from category c on
RECURSIVE ScanCategories(_, _)
ScanCategories(c, text_lower) ==
  IF c > Len(risk_keywords) THEN <<>>
  ELSE ScanKeywords(c, 1, text_lower) \o ScanCategories(c + 1, text_lower)

\* a change of behaviour: an entry is added for "Member SIPC" when the text lacks it
analyze_risk_keywords_Disclosures(text) ==
  ScanCategories(1, TextLower(text))
    \o (IF Contains(TextLower(text), <<"m","e","m","b","e","r"," ","s","i","p","c">>)
        THEN <<>>
        ELSE <<FormatRisk("Missing Disclosure", <<"M","e","m","b","e","r"," ","S","I","P","C">>)>>)

analyze_risk_keywords(text) == ScanCategories(1, TextLower(text))

\* -------------------------------------------------------- truthiness
\* `not api_key`: None and the empty string are falsy
KeyTruthy(api_key) == api_key # None /\ api_key[1] # ""

\* ------------------------------------- what the outside world can answer
\* pieces the extraction service's page text is made of
Fragments == {
  <<"G","u","a","r","a","n","t","e","e","d"," ">>,
  <<"R","e","t","u","r","n">>,
  <<"5"," ","s","t","a","r">>,
  <<"s"," ","R","e","v","i","e","w","s">>,
  <<"C","r","y","p","t","o">>,
  <<"M","e","m","b","e","r"," ","F","I","N","R","A">> }

RECURSIVE Concats(_)
Concats(n) ==
  IF n = 0 THEN {<<>>}
  ELSE Concats(n - 1) \cup {t \o f : t \in Concats(n - 1), f \in Fragments}

\* texts of the results of exa.get_contents(ids=[url], text=True)
ServiceTexts == Concats(MaxFrags)

\* response.results: one id is asked for, so at most one result; a result's
\* text is a string or absent
ExaResultLists ==
  {<<>>, <<[text |-> None]>>} \cup {<<[text |-> Some(t)]>> : t \in ServiceTexts}

\* exa.get_contents either raises or returns a response
ExaBehaviours ==
  {[raises |-> TRUE, results |-> <<>>]}
    \cup {[raises |-> FALSE, results |-> r] : r \in ExaResultLists}

\* an HTML body is a sequence of elements <<tag, string>>
HtmlNodes == {
  <<"p", <<" ","R","i","s","k","-","F","r","e","e"," ">> >>,
  <<"p", <<"c","r","y","p","t","o">> >>,
  <<"p", <<" ">> >>,
  <<"script", <<"c","r","y","p","t","o">> >>,
  <<"style", <<" ","R","i","s","k","-","F","r","e","e"," ">> >> }

RECURSIVE Bodies(_)
Bodies(n) ==
  IF n = 0 THEN {<<>>}
  ELSE Bodies(n - 1) \cup {Append(b, e) : b \in Bodies(n - 1), e \in HtmlNodes}

HtmlBodies == Bodies(MaxNodes)

\* requests.get either raises a transport error or returns a response
TransportErrors == {"ConnectionError", "Timeout"}
ParsedStatuses == {200, 304}
ErrorStatuses == {403, 500}
FetchBehaviours ==
  {[error |-> e, status |-> 0, body |-> <<>>] : e \in TransportErrors}
    \cup {[error |-> "", status |-> s, body |-> b] : s \in ParsedStatuses, b \in HtmlBodies}
    \cup {[error |-> "", status |-> s, body |-> <<>>] : s \in ErrorStatuses}

\* GoogleSearch(...).get_dict() either raises or returns a dict
LinkedInLink == <<"l","i","n","k","e","d","i","n",".","c","o","m","/","x">>
OtherLink == <<"x",".","c","o","m">>
SearchDicts ==
  {[keys |-> {}, organic_results |-> <<>>],
   [keys |-> {"error"}, organic_results |-> <<>>],
   [keys |-> {"organic_results"}, organic_results |-> <<>>],
   [keys |-> {"organic_results"},
    organic_results |-> <<[link |-> LinkedInLink], [link |-> OtherLink]>>]}
SearchBehaviours ==
  {[raises |-> TRUE, dict |-> [keys |-> {}, organic_results |-> <<>>]]}
    \cup {[raises |-> FALSE, dict |-> d] : d \in SearchDicts}

\* ------------------------------------------------------- run_google_test
\* returns the pair (data, error) and the number of search requests issued
run_google_test(name, city, api_key, provider) ==
  IF ~KeyTruthy(api_key)
  THEN [data |-> None, err |-> Some(<<"API Key Missing">>), requests |-> 0,
        query |-> None]
  ELSE IF provider.raises
  THEN [data |-> None, err |-> Some(<<"provider error">>), requests |-> 1,
        query |-> Some(<<name, " financial advisor ", city>>)]
  ELSE [data |-> Some(provider.dict), err |-> None, requests |-> 1,
        query |-> Some(<<name, " financial advisor ", city>>)]

\* ---------------------------------------------------- run_compliance_crawl
\* soup = BeautifulSoup(...); script/style decomposed; get_text(' ', strip=True)
RECURSIVE JoinVisible(_)
JoinVisible(body) ==
  IF body = <<>> THEN <<>>
  ELSE LET tag == Head(body)[1]
           str == Strip(Head(body)[2])
           rest == JoinVisible(Tail(body))
       IN IF tag \in {"script", "style"} \/ str = <<>> THEN rest
          ELSE IF rest = <<>> THEN str
          ELSE str \o <<" ">> \o rest

\* a slip: only server errors raise
RaisesForStatus_ServerOnly(status) == status >= 500 /\ status < 600

\* response.raise_for_status()
RaisesForStatus(status) == status >= 400 /\ status < 600

\* str(e) of the HTTPError that raise_for_status raises
HttpErrorText(status) ==
  <<status, IF status < 500 THEN " Client Error" ELSE " Server Error">>

\* step 3, the fallback of lines 95-119
Fallback(url, fetch) ==
  IF fetch.error # ""
  THEN [raised |-> FALSE, data |-> None,
        err |-> Some(<<"Scraping Failed (Both Exa & Fallback): ", fetch.error>>)]
  ELSE IF RaisesForStatus(fetch.status)
  THEN [raised |-> FALSE, data |-> None,
        err |-> Some(<<"Scraping Failed (Both Exa & Fallback): ">>
                       \o HttpErrorText(fetch.status))]
  ELSE [raised |-> FALSE,
        data |-> Some([class |-> "MockResult", text |-> Some(JoinVisible(fetch.body))]),
        err |-> None]

\* step 2, the primary of lines 85-92: TRUE when line 89 returns
PrimaryReturns(exa) == ~exa.raises /\ exa.results # <<>>

\* a slip: the primary's exception is reported instead of falling back
run_compliance_crawl_NoFallback(url, api_key, ctor_raises, exa, fetch) ==
  IF ~KeyTruthy(api_key)
  THEN [raised |-> FALSE, data |-> None, err |-> Some(<<"API Key Missing">>),
        exa_init |-> 0, get_contents |-> 0, get |-> 0, url |-> None]
  ELSE LET u == SanitizeUrl(url) IN
    IF ctor_raises
    THEN [raised |-> TRUE, data |-> None, err |-> None,
          exa_init |-> 1, get_contents |-> 0, get |-> 0, url |-> Some(u)]
    ELSE IF exa.raises
    THEN [raised |-> FALSE, data |-> None, err |-> Some(<<"Exa failed">>),
          exa_init |-> 1, get_contents |-> 1, get |-> 0, url |-> Some(u)]
    ELSE IF PrimaryReturns(exa)
    THEN [raised |-> FALSE,
          data |-> Some([class |-> "Result", text |-> exa.results[1].text]),
          err |-> None,
          exa_init |-> 1, get_contents |-> 1, get |-> 0, url |-> Some(u)]
    ELSE [exa_init |-> 1, get_contents |-> 1, get |-> 1, url |-> Some(u)]
           @@ Fallback(u, fetch)

\* the whole function; ctor_raises, exa and fetch are what Exa(api_key),
\* exa.get_contents and requests.get do if the code reaches them
run_compliance_crawl(url, api_key, ctor_raises, exa, fetch) ==
  IF ~KeyTruthy(api_key)
  THEN [raised |-> FALSE, data |-> None, err |-> Some(<<"API Key Missing">>),
        exa_init |-> 0, get_contents |-> 0, get |-> 0, url |-> None]
  ELSE LET u == SanitizeUrl(url) IN
    IF ctor_raises
    THEN [raised |-> TRUE, data |-> None, err |-> None,
          exa_init |-> 1, get_contents |-> 0, get |-> 0, url |-> Some(u)]
    ELSE IF PrimaryReturns(exa)
    THEN [raised |-> FALSE,
          data |-> Some([class |-> "Result", text |-> exa.results[1].text]),
          err |-> None,
          exa_init |-> 1, get_contents |-> 1, get |-> 0, url |-> Some(u)]
    ELSE [exa_init |-> 1, get_contents |-> 1, get |-> 1, url |-> Some(u)]
           @@ Fallback(u, fetch)

\* ------------------------------------------------------------------ state
VARIABLES
  serpapi_key,       \* st.secrets.get("SERPAPI_API_KEY")
  exa_api_key,       \* st.secrets.get("EXA_API_KEY")
  advisor_name,      \* the three text inputs
  city_loc,
  target_url_input,
  pc,                \* where the "Run Audit" handler stands
  internal_result,   \* status of simulate_internal_discovery()
  reg_result,        \* status of simulate_regulatory_check()
  search_data,       \* the pair returned by run_google_test
  search_err,
  crawl_data,        \* the pair returned by run_compliance_crawl
  crawl_err,
  risk_flags,
  dashboard,         \* what the results dashboard shows
  calls,             \* external calls issued by the current run
  seen               \* what the external services answered in the current run

vars == <<serpapi_key, exa_api_key, advisor_name, city_loc, target_url_input, pc,
          internal_result, reg_result, search_data, search_err, crawl_data,
          crawl_err, risk_flags, dashboard, calls, seen>>

KeyValues == {None, Some(""), Some("sk-key")}
NameValues == {"", "John Smith"}
CityValues == {"", "New York"}
UrlValues == {<<>>, <<"x",".","c","o","m">>, <<"h","t","t","p",":","/","/","x",".","c","o","m">>}

NoCalls == [search |-> 0, exa_init |-> 0, get_contents |-> 0, get |-> 0, analyze |-> 0]
NothingSeen == [query |-> None, url |-> None, exa |-> "not called",
                fetch |-> "not called", status |-> 0, analyzed |-> None]
NoDashboard == [left |-> "", search_error |-> None, oba_checks |-> 0, right |-> ""]

inputs == <<advisor_name, city_loc, target_url_input>>
keys == <<serpapi_key, exa_api_key>>
simulated == <<internal_result, reg_result>>
searched == <<search_data, search_err>>
crawled == <<crawl_data, crawl_err>>

\* the script has run once without a click: keys read, inputs at their defaults
Init ==
  /\ serpapi_key \in KeyValues
  /\ exa_api_key \in KeyValues
  /\ advisor_name = "John Smith"
  /\ city_loc = "New York"
  /\ target_url_input = <<>>
  /\ pc = "idle"
  /\ internal_result = ""
  /\ reg_result = ""
  /\ search_data = None
  /\ search_err = None
  /\ crawl_data = None
  /\ crawl_err = None
  /\ risk_flags = <<>>
  /\ dashboard = NoDashboard
  /\ calls = NoCalls
  /\ seen = NothingSeen

\* a run has ended: completed, stopped by st.stop(), or by an uncaught exception
Ended == pc \in {"DONE", "STOPPED", "CRASHED"}

\* a slip: the target URL is not required
InputsMissing_UrlOptional(name, city, url) == ~(name # "" /\ city # "")

\* the check of line 173
InputsMissing(name, city, url) == ~(name # "" /\ city # "" /\ url # <<>>)

\* the user fills the inputs and clicks "Run Audit": lines 172-175
RunAudit(name, city, url) ==
  /\ pc = "idle" \/ Ended
  /\ advisor_name' = name
  /\ city_loc' = city
  /\ target_url_input' = url
  /\ pc' = IF InputsMissing(name, city, url) THEN "STOPPED" ELSE "simulate"
  /\ internal_result' = ""
  /\ reg_result' = ""
  /\ search_data' = None
  /\ search_err' = None
  /\ crawl_data' = None
  /\ crawl_err' = None
  /\ risk_flags' = <<>>
  /\ dashboard' = NoDashboard
  /\ calls' = NoCalls
  /\ seen' = NothingSeen
  /\ UNCHANGED keys

\* lines 180-188: the two random simulations
Simulate(internal, reg) ==
  /\ pc = "simulate"
  /\ internal_result' = internal
  /\ reg_result' = reg
  /\ pc' = "search"
  /\ UNCHANGED <<inputs, keys, searched, crawled, risk_flags, dashboard, calls, seen>>

\* lines 190-198: the reputation search
GoogleTest(provider) ==
  /\ pc = "search"
  /\ LET r == run_google_test(advisor_name, city_loc, serpapi_key, provider) IN
       /\ search_data' = r.data
       /\ search_err' = r.err
       /\ calls' = [calls EXCEPT !.search = @ + r.requests]
       /\ seen' = [seen EXCEPT !.query = r.query]
  /\ pc' = "crawl"
  /\ UNCHANGED <<inputs, keys, simulated, crawled, risk_flags, dashboard>>

\* what exa.get_contents did, for the record
ExaSeen(r, ctor_raises, exa) ==
  IF r.exa_init = 0 THEN "not called"
  ELSE IF ctor_raises THEN "constructor raised"
  ELSE IF exa.raises THEN "raised"
  ELSE IF exa.results = <<>> THEN "empty" ELSE "results"

\* what requests.get did, for the record
FetchSeen(r, fetch) ==
  IF r.get = 0 THEN "not called"
  ELSE IF fetch.error # "" THEN fetch.error ELSE "response"

\* a service that the code does not reach is not asked: one answer stands for all
CtorAsked(api_key) == IF KeyTruthy(api_key) THEN BOOLEAN ELSE {FALSE}
ExaAsked(api_key, ctor_raises) ==
  IF KeyTruthy(api_key) /\ ~ctor_raises THEN ExaBehaviours
  ELSE {[raises |-> TRUE, results |-> <<>>]}
FetchAsked(api_key, ctor_raises, exa) ==
  IF KeyTruthy(api_key) /\ ~ctor_raises /\ ~PrimaryReturns(exa) THEN FetchBehaviours
  ELSE {[error |-> "Timeout", status |-> 0, body |-> <<>>]}

\* lines 200-202: the website crawl
Crawl(ctor_raises, exa, fetch) ==
  /\ pc = "crawl"
  /\ LET r == run_compliance_crawl(target_url_input, exa_api_key, ctor_raises, exa, fetch) IN
       /\ crawl_data' = r.data
       /\ crawl_err' = r.err
       /\ calls' = [calls EXCEPT !.exa_init = @ + r.exa_init,
                                 !.get_contents = @ + r.get_contents,
                                 !.get = @ + r.get]
       /\ seen' = [seen EXCEPT !.url = r.url,
                               !.exa = ExaSeen(r, ctor_raises, exa),
                               !.fetch = FetchSeen(r, fetch),
                               !.status = IF r.get = 1 THEN fetch.status ELSE 0]
       /\ pc' = IF r.raised THEN "CRASHED" ELSE "classify"
  /\ UNCHANGED <<inputs, keys, simulated, searched, risk_flags, dashboard>>

\* the test `if crawl_data:` of lines 205 and 254
ShouldClassify(data) == data # None

\* lines 204-215: the keyword scan; None.lower() raises AttributeError
Classify ==
  /\ pc = "classify"
  /\ IF ShouldClassify(crawl_data)
     THEN /\ calls' = [calls EXCEPT !.analyze = @ + 1]
          /\ seen' = [seen EXCEPT !.analyzed = Some(crawl_data[1].text)]
          /\ IF crawl_data[1].text = None
             THEN /\ pc' = "CRASHED"
                  /\ UNCHANGED risk_flags
             ELSE /\ risk_flags' = analyze_risk_keywords(crawl_data[1].text[1])
                  /\ pc' = "render"
     ELSE /\ risk_flags' = <<>>
          /\ pc' = "render"
          /\ UNCHANGED <<calls, seen>>
  /\ UNCHANGED <<inputs, keys, simulated, searched, crawled, dashboard>>

HasOrganic(data) ==
  data # None /\ data[1].keys # {} /\ "organic_results" \in data[1].keys

\* the condition of line 233 on one search result
IsLinkedIn(res) == Contains(res.link, <<"l","i","n","k","e","d","i","n">>)

\* lines 227-238: the Digital Footprint column
LeftColumn(data, err) ==
  IF HasOrganic(data)
  THEN [left |-> "results", search_error |-> None,
        oba_checks |-> Cardinality({i \in 1..Len(data[1].organic_results) :
                                       i <= 4 /\ IsLinkedIn(data[1].organic_results[i])})]
  ELSE IF err # None
  THEN [left |-> "error", search_error |-> err, oba_checks |-> 0]
  ELSE [left |-> "no results", search_error |-> None, oba_checks |-> 0]

\* lines 254-268: the Website Compliance Audit column
RightColumn(data, flags) ==
  IF ShouldClassify(data)
  THEN (IF flags # <<>> THEN "violations" ELSE "clean scan")
  ELSE "unavailable"

\* lines 217-277: the results dashboard
Render ==
  /\ pc = "render"
  /\ dashboard' = LeftColumn(search_data, search_err)
                    @@ [right |-> RightColumn(crawl_data, risk_flags)]
  /\ pc' = "DONE"
  /\ UNCHANGED <<inputs, keys, simulated, searched, crawled, risk_flags, calls, seen>>

Next ==
  \/ \E name \in NameValues, city \in CityValues, url \in UrlValues :
       RunAudit(name, city, url)
  \/ \E internal \in {"Flagged", "Clear"}, reg \in {"Alert", "Clear"} :
       Simulate(internal, reg)
  \/ \E provider \in SearchBehaviours : GoogleTest(provider)
  \/ \E ctor_raises \in CtorAsked(exa_api_key) :
       \E exa \in ExaAsked(exa_api_key, ctor_raises) :
         \E fetch \in FetchAsked(exa_api_key, ctor_raises, exa) :
           Crawl(ctor_raises, exa, fetch)
  \/ Classify
  \/ Render

Spec == Init /\ [][Next]_vars

\* ================================================================ properties
\* the handler has called run_compliance_crawl in the current run
CrawlCalled == pc \in {"classify", "render", "DONE", "CRASHED"}

\* an exception left run_compliance_crawl
CrawlRaised == pc = "CRASHED" /\ calls.analyze = 0

\* run_compliance_crawl has returned its pair
CrawlReturned == CrawlCalled /\ ~CrawlRaised

\* the pair read as an outcome: (result, None) and (None, message)
IsSuccess == crawl_data # None /\ crawl_err = None
IsError == crawl_data = None /\ crawl_err # None

ScrapingFailed == "Scraping Failed (Both Exa & Fallback): "

\* exa.get_contents was called and failed: it raised, or returned no result
PrimaryFailed == seen.exa \in {"raised", "empty"}

\* ----------------------------------------------------------------------- C1
\* C1: run_compliance_crawl never raises past its boundary: whenever the
\* handler has called it, it has returned, and exactly one of the two
\* components of the returned pair is populated.
C1_NeverRaises ==
  CrawlCalled =>
    /\ ~CrawlRaised
    /\ (crawl_data = None) # (crawl_err = None)

C3_BlockedDistinction ==
  (CrawlReturned /\ seen.fetch = "response" /\ seen.status \notin 200..299) =>
    /\ crawl_data = None
    /\ crawl_err # None
    /\ crawl_err[1][1] # ScrapingFailed
    /\ \E i \in 1..Len(crawl_err[1]) : crawl_err[1][i] = seen.status

\* C3 amended: there is no Blocked outcome.  A direct fetch answering a
\* status in [400,599] yields the same (None, "Scraping Failed ...") error pair
\* as a transport failure, told apart only by the message text, which starts
\* with the status code; an answer with any status below 400 (304 included)
\* yields a successful fallback result.
C3_HttpErrorIsError ==
  (CrawlReturned /\ calls.get = 1) =>
    /\ (seen.fetch = "response" /\ seen.status >= 400 /\ seen.status <= 599) =>
         /\ IsError
         /\ Len(crawl_err[1]) = 3
         /\ crawl_err[1][1] = ScrapingFailed
         /\ crawl_err[1][2] = seen.status
    /\ (seen.fetch = "response" /\ seen.status < 400) =>
         (IsSuccess /\ crawl_data[1].class = "MockResult")
    /\ seen.fetch \in TransportErrors =>
         (IsError /\ crawl_err[1] = <<ScrapingFailed, seen.fetch>>)

\* the fallback fetch answered 403 and the run completed with the error pair
C3_Witness ==
  /\ pc = "DONE"
  /\ seen.fetch = "response"
  /\ seen.status = 403
  /\ IsError
  /\ crawl_err[1] = <<ScrapingFailed, 403, " Client Error">>

\* ----------------------------------------------------------------------- C4
\* C4: a successful result of the primary service always has a non-empty text;
\* a primary result whose text is empty or absent is not returned.
C4_PrimaryTextNonEmpty ==
  (CrawlReturned /\ IsSuccess /\ crawl_data[1].class = "Result") =>
    /\ crawl_data[1].text # None
    /\ crawl_data[1].text # Some(<<>>)

\* ----------------------------------------------------------------------- C5
\* the text analyze_risk_keywords was called with is a non-empty string
AnalyzedNonEmpty == seen.analyzed[1] # None /\ seen.analyzed[1] # Some(<<>>)

\* C5: a run whose retrieval ended in an error never invokes
\* analyze_risk_keywords, has no findings and ends completed; and no run
\* invokes analyze_risk_keywords on an empty text.
C5_ClassifyOnlyOnText ==
  /\ (CrawlReturned /\ IsError) => (calls.analyze = 0 /\ risk_flags = <<>>)
  /\ (CrawlReturned /\ IsError /\ Ended) => pc = "DONE"
  /\ calls.analyze > 0 => AnalyzedNonEmpty

\* ----------------------------------------------------------------------- C6
\* the reputation search step of the current run has been executed
SearchStepDone == search_data # None \/ search_err # None

\* the search produced at least one organic result
SearchHasResult ==
  /\ search_data # None
  /\ "organic_results" \in search_data[1].keys
  /\ search_data[1].organic_results # <<>>

\* C6 as stated: a run without an explicit URL still performs the search and
\* crawls the top result's link; a run ends without a target only when no URL
\* was supplied and the search gave no result.
C6_TargetResolution ==
  /\ (Ended /\ target_url_input = <<>>) => SearchStepDone
  /\ (Ended /\ target_url_input = <<>> /\ SearchHasResult) =>
       seen.url = Some(SanitizeUrl(search_data[1].organic_results[1].link))
  /\ pc = "STOPPED" => (target_url_input = <<>> /\ ~SearchHasResult)

\* C6 amended: the crawl target is always the explicit URL (with https://
\* prepended when it carries no scheme), never a search result's link.  A run
\* in which the advisor name, the city or the target URL is empty stops at the
\* input check, before the search and the crawl, with no retrieval and no
\* findings; every run that passes the check has all three.
C6_ExplicitUrlRequired ==
  /\ pc = "STOPPED" =>
       /\ advisor_name = "" \/ city_loc = "" \/ target_url_input = <<>>
       /\ ~SearchStepDone
       /\ calls = NoCalls
       /\ crawl_data = None /\ crawl_err = None
       /\ risk_flags = <<>>
  /\ pc \notin {"idle", "STOPPED"} =>
       (advisor_name # "" /\ city_loc # "" /\ target_url_input # <<>>)
  /\ seen.url # None =>
       /\ seen.url[1] \in {target_url_input, HttpsPrefix \o target_url_input}
       /\ SubSeq(seen.url[1], 1, 4) = <<"h","t","t","p">>

\* a run with name and city but no URL stopped without searching
C6_Witness ==
  /\ pc = "STOPPED"
  /\ advisor_name # ""
  /\ city_loc # ""
  /\ target_url_input = <<>>
  /\ ~SearchStepDone

\* ----------------------------------------------------------------------- C7
\* C7: a run whose search step failed ends completed, with the search error on
\* the dashboard; when its retrieval succeeded the keyword scan ran and its
\* findings are those of the retrieved text.
C7_SearchFailureNonFatal ==
  (search_err # None /\ Ended) =>
    /\ pc = "DONE"
    /\ dashboard.left = "error"
    /\ dashboard.search_error = search_err
    /\ CrawlReturned
    /\ IsSuccess => (calls.analyze = 1 /\ dashboard.right \in {"violations", "clean scan"})

\* ---------------------------------------------------------------------- C10
\* C10: with its key missing, run_google_test returns "API Key Missing" and
\* sends no search request, run_compliance_crawl returns "API Key Missing" and
\* neither builds the client, nor calls the service, nor fetches the page; and
\* the run that met the missing key ends completed with the error recorded.
C10_MissingKeyNoCalls ==
  /\ (SearchStepDone /\ ~KeyTruthy(serpapi_key)) =>
       /\ search_data = None
       /\ search_err = Some(<<"API Key Missing">>)
       /\ calls.search = 0
  /\ (CrawlCalled /\ ~KeyTruthy(exa_api_key)) =>
       /\ crawl_data = None
       /\ crawl_err = Some(<<"API Key Missing">>)
       /\ calls.exa_init = 0 /\ calls.get_contents = 0 /\ calls.get = 0
  /\ (Ended /\ pc # "STOPPED" /\ (~KeyTruthy(serpapi_key) \/ ~KeyTruthy(exa_api_key))) =>
       /\ pc = "DONE"
       /\ ~KeyTruthy(serpapi_key) => dashboard.search_error = Some(<<"API Key Missing">>)

\* ----------------------------------------------------------------------- C8
\* analyze_risk_keywords has returned in the current run
Analyzed == calls.analyze = 1 /\ pc \in {"render", "DONE"}

\* the string it was called with
AnalyzedText == seen.analyzed[1][1]

\* sub occurs in s as a contiguous slice
IsSubstring(sub, s) ==
  \E i \in 1..(Len(s) - Len(sub) + 1) : SubSeq(s, i, i + Len(sub) - 1) = sub

\* the configured (category, keyword) positions
KeywordPairs ==
  UNION {{<<c, k>> : k \in 1..Len(risk_keywords[c])} : c \in 1..Len(risk_keywords)}

\* those whose lower-cased keyword occurs in the lower-cased text
Matching(text) ==
  {p \in KeywordPairs : IsSubstring(Lower(risk_keywords[p[1]][p[2]]), Lower(text))}

\* the configured position a finding names
PairOf(flag) ==
  CHOOSE p \in KeywordPairs :
    CategoryNames[p[1]] = flag[2] /\ risk_keywords[p[1]][p[2]] = flag[4]

\* configured category order, then configured keyword order
Before(p, q) == p[1] < q[1] \/ (p[1] = q[1] /\ p[2] < q[2])

\* C8: the findings are exactly the configured (category, keyword) pairs whose
\* lower-cased keyword is a substring of the lower-cased text, each once, in
\* configured category order and then configured keyword order.
C8_FindingsExact ==
  Analyzed =>
    /\ \A i \in 1..Len(risk_flags) :
         /\ Len(risk_flags[i]) = 5
         /\ \E p \in Matching(AnalyzedText) :
              /\ risk_flags[i][2] = CategoryNames[p[1]]
              /\ risk_flags[i][4] = risk_keywords[p[1]][p[2]]
    /\ \A p \in Matching(AnalyzedText) :
         \E i \in 1..Len(risk_flags) : PairOf(risk_flags[i]) = p
    /\ \A i, j \in 1..Len(risk_flags) :
         i < j => Before(PairOf(risk_flags[i]), PairOf(risk_flags[j]))

\* a text with capitals whose testimonial term comes before its product term
\* was scanned: the product finding still comes first
C8_Witness ==
  /\ pc = "DONE"
  /\ Analyzed
  /\ AnalyzedText # Lower(AnalyzedText)
  /\ AnalyzedText = <<"s"," ","R","e","v","i","e","w","s","C","r","y","p","t","o">>
  /\ Len(risk_flags) = 2
  /\ risk_flags[1][2] = "Unapproved Products"
  /\ risk_flags[2][2] = "Testimonials (SEC Rule)"

\* ----------------------------------------------------------------------- C9
\* the mandatory disclosures of the claim's example
ExampleDisclosures ==
  << <<"M","e","m","b","e","r"," ","F","I","N","R","A">>,
     <<"M","e","m","b","e","r"," ","S","I","P","C">> >>

\* the example disclosures that the text lacks, in configured order
AbsentFrom(text) ==
  LET absent(d) == ~IsSubstring(Lower(d), Lower(text))
  IN SelectSeq(ExampleDisclosures, absent)

\* the example disclosures that the value returned by analyze_risk_keywords names
Reported ==
  LET named(d) == \E i \in 1..Len(risk_flags) : risk_flags[i][4] = d
  IN SelectSeq(ExampleDisclosures, named)

\* C9 as stated: classification returns exactly the mandatory disclosures
\* whose lower-cased form is not a substring of the lower-cased text.
C9_MissingDisclosures ==
  Analyzed => Reported = AbsentFrom(AnalyzedText)

\* C9 amended: analyze_risk_keywords takes the text alone and returns keyword
\* findings alone: it has no list of mandatory disclosures and reports no
\* missing disclosure, whether or not the text contains one (a text with
\* "Member FINRA" and without "Member SIPC" yields no entry for either).
C9_NoDisclosureOutput ==
  Analyzed =>
    /\ Reported = <<>>
    /\ \A i \in 1..Len(risk_flags) :
         \E p \in KeywordPairs : risk_flags[i][4] = risk_keywords[p[1]][p[2]]
    /\ Len(risk_flags) <= Cardinality(KeywordPairs)

\* a text with "Member FINRA" and without "Member SIPC" was scanned and the
\* result is empty
C9_Witness ==
  /\ pc = "DONE"
  /\ Analyzed
  /\ AbsentFrom(AnalyzedText) = <<ExampleDisclosures[2]>>
  /\ risk_flags = <<>>

====
